---- MODULE Spec2Model ----
(***************************************************************************)
(* Model of src/scanner/utils.rs: the adaptive request-rate controller     *)
(* (PolicyData, LimitHeap, Requester).                                     *)
(*                                                                         *)
(* The specifications share the state:                                     *)
(*   Spec             workers running Requester::request concurrently on   *)
(*                    one Requester (one scan);                            *)
(*   FairSpec         the same steps under weak fairness of each worker,   *)
(*                    from a smaller set of requesters (InitFair);         *)
(*   SpecFault        the steps of Spec and the failures of the calls that *)
(*                    return a Result, from the requesters of InitFair;    *)
(*   SpecTune         one worker calling Requester::tune again and again   *)
(*                    (the sequential walk over the LimitHeap);            *)
(*   SpecAdjust       PolicyData::adjust_up / adjust_down called once on a *)
(*                    built tree with the cursor on any node;              *)
(*   SpecLimit        Requester::adjust_limit called once, with            *)
(*                    create_limiter true or false;                        *)
(*   SpecRequest      one worker in the loop of Requester::request, with   *)
(*                    the recursion hand-off, the filters, the extractor   *)
(*                    and the report as steps of their own;                *)
(*   SpecBucket       Requester::build_a_bucket applied to one limit;      *)
(*   SpecPolicy       Requester::should_enforce_policy applied to scan     *)
(*                    counters drawn from sets around its thresholds.      *)
(***************************************************************************)
EXTENDS Integers, Sequences, FiniteSets, TLC

VARIABLES
    config,         \* Handles.config: requester_policy, auto_tune, auto_bail, rate_limit, threads
    handles,        \* Handles: the other scans of ferox_scans, the messages sent on stats
    stats_requests, \* handles.stats.data.requests (process-wide)
    ferox_scan,     \* the FeroxScan of this Requester: its counters and status
    heap,           \* policy_data.heap: LimitHeap {inner, original, current}
    heap_lock,      \* policy_data.heap's RwLock: the set of workers holding the writer
    limit,          \* policy_data.limit
    errors,         \* policy_data.errors
    remove_limit,   \* policy_data.remove_limit
    cooling_down,   \* policy_data.cooling_down
    tuning_lock,    \* Requester.tuning_lock: Mutex<usize> {held, streak}
    rate_limiter,   \* Requester.rate_limiter: Option<LeakyBucket>
    built,          \* number of LeakyBuckets built so far (gives each bucket its serial)
    pc,             \* per worker: position inside request / tune / adjust_limit / cool_down
    frame,          \* per worker: the locals of the calls it is inside
    issued,         \* number of loop iterations of request() started so far
    last            \* the last call made by the sequential specifications, with what it saw before

vars == <<config, handles, stats_requests, ferox_scan, heap, heap_lock, limit, errors,
          remove_limit, cooling_down, tuning_lock, rate_limiter, built, pc, frame,
          issued, last>>

(***************************************************************************)
(* Program constants.                                                      *)
(***************************************************************************)
HeapLen == 255
MinRequests == 50
MinErrors == 25
HighErrorRatioTenths == 9

(***************************************************************************)
(* Bounds of the model.                                                    *)
(***************************************************************************)
NumWorkers == 2
MaxRequests == 3
MaxStreak == 4
MaxSeed == 12

Workers == 1..NumWorkers
PolicyTriggers == {"Errors", "Status403", "Status429"}

\* Option<T>: None is the empty set, Some(x) the set holding x
None == {}
Some(x) == {x}
unwrap(o) == CHOOSE x \in o : TRUE

Max(a, b) == IF a >= b THEN a ELSE b
Abs(a) == IF a < 0 THEN 0 - a ELSE a

(***************************************************************************)
(* LimitHeap                                                               *)
(***************************************************************************)
LimitHeap_default ==
    [inner |-> [i \in 0..(HeapLen - 1) |-> 0], original |-> 0, current |-> 0]

\* self.inner.len()
inner_len(h) == Cardinality(DOMAIN h.inner)

has_children(h) == h.current * 2 + 2 <= inner_len(h)

has_parent(h) == h.current > 0

\* the navigation functions return the index the move was requested from; the
\* model returns the heap after the move and the callers keep the index themselves
move_right(h) ==
    IF has_children(h) THEN [h EXCEPT !.current = h.current * 2 + 2] ELSE h

move_left(h) ==
    IF has_children(h) THEN [h EXCEPT !.current = h.current * 2 + 1] ELSE h

move_up(h) ==
    IF has_parent(h) THEN [h EXCEPT !.current = (h.current - 1) \div 2] ELSE h

move_to(h, index) == [h EXCEPT !.current = index]

value(h) == h.inner[h.current]

set_value(h, v) == [h EXCEPT !.inner[h.current] = v]

parent_value(h) ==
    IF has_parent(h) THEN value(move_up(h)) ELSE h.original

right_child_value(h) == value(move_right(h))

set_left_child(h) ==
    LET parent == parent_value(h)
        current == value(h)
        v == (Abs(parent - current) \div 2) + current
    IN  move_up(set_value(move_left(h), v))

set_right_child(h) ==
    LET parent == parent_value(h)
        current == value(h)
        v == current - (Abs(parent - current) \div 2)
    IN  move_up(set_value(move_right(h), v))

\* the body of build's loop at index i: set_left_child, then set_right_child on
\* the heap it leaves (bound as a value, to be evaluated once)
build_at(h, i) ==
    LET at == move_to(h, i)
    IN  IF has_children(at) /\ right_child_value(at) = 0
        THEN CHOOSE r \in {set_right_child(left) : left \in {set_left_child(at)}} : TRUE
        ELSE at

\* for i in lo..hi: the loop of build, run in index order. The range is split in
\* halves, and the middle index and the heap after the first half are bound as
\* values, which keeps the evaluation of the 254 iterations shallow
RECURSIVE build_loop(_, _, _)
build_loop(h, lo, hi) ==
    IF hi <= lo THEN h
    ELSE IF hi = lo + 1 THEN build_at(h, lo)
    ELSE CHOOSE r \in UNION {{build_loop(half, mid, hi) : half \in {build_loop(h, lo, mid)}}
                              : mid \in {(lo + hi) \div 2}} : TRUE

\* mutation of build: the children of the root taken as quarters of the seed
build_quarters(h) ==
    LET root == h.original \div 2
        top == [h EXCEPT !.inner[0] = root,
                         !.inner[1] = root + h.original \div 4,
                         !.inner[2] = h.original \div 4]
    IN  move_to(build_loop(top, 1, inner_len(h)), 0)

build(h) ==
    LET root == h.original \div 2
        top == [h EXCEPT !.inner[0] = root,
                         !.inner[1] = (Abs(h.original - root) \div 2) + root,
                         !.inner[2] = root - (Abs(h.original - root) \div 2)]
    IN  move_to(build_loop(top, 1, inner_len(h)), 0)

(***************************************************************************)
(* PolicyData: the calls that take the heap's writer. Each takes and       *)
(* returns the record {heap, limit, remove_limit}; locked tells whether    *)
(* another worker holds the heap's writer (try_write fails).               *)
(***************************************************************************)
PD == [heap |-> heap, limit |-> limit, remove_limit |-> remove_limit]

set_reqs_sec(pd, reqs_sec) ==
    LET h == build([pd.heap EXCEPT !.original = reqs_sec])
    IN  [pd EXCEPT !.heap = h, !.limit = h.inner[0]]

\* adjust_up_left taking the right child
adjust_up_right(pd) ==
    LET h1 == move_right(pd.heap)
    IN  [pd EXCEPT !.heap = h1, !.limit = value(h1)]

\* adjust_up, streak not at 3 and the node has children: one move down to the left
adjust_up_left(pd) ==
    LET h1 == move_left(pd.heap)
    IN  [pd EXCEPT !.heap = h1, !.limit = value(h1)]

\* adjust_up_streak lifting the limit whenever it ends on the root
adjust_up_streak_root_removes(pd) ==
    LET current == value(pd.heap)
        h2 == move_up(move_up(pd.heap))
    IN  IF current > value(h2) /\ has_parent(h2) /\ parent_value(h2) > current THEN
            LET h3 == move_up(h2)
            IN  [pd EXCEPT !.heap = h3, !.limit = value(h3)]
        ELSE IF ~has_parent(h2) THEN
            [pd EXCEPT !.heap = h2, !.limit = value(h2), !.remove_limit = TRUE]
        ELSE [pd EXCEPT !.heap = h2, !.limit = value(h2)]

\* adjust_up on a streak above 2: two moves up, then a third or remove_limit
adjust_up_streak(pd) ==
    LET current == value(pd.heap)
        h2 == move_up(move_up(pd.heap))
    IN  IF current > value(h2) THEN
            IF has_parent(h2) /\ parent_value(h2) > current THEN
                LET h3 == move_up(h2)
                IN  [pd EXCEPT !.heap = h3, !.limit = value(h3)]
            ELSE IF ~has_parent(h2) THEN
                [pd EXCEPT !.heap = h2, !.limit = value(h2), !.remove_limit = TRUE]
            ELSE [pd EXCEPT !.heap = h2, !.limit = value(h2)]
        ELSE [pd EXCEPT !.heap = h2, !.limit = value(h2)]

\* adjust_up_leaf with the third move made whatever the value reached
adjust_up_leaf_three(pd) ==
    LET h3 == move_up(move_up(move_up(pd.heap)))
    IN  [pd EXCEPT !.heap = h3, !.limit = value(h3)]

\* adjust_up, streak not at 3 and the tree bottomed out: two or three moves up
adjust_up_leaf(pd) ==
    LET current == value(pd.heap)
        h2 == move_up(move_up(pd.heap))
        h3 == IF current > value(h2) THEN move_up(h2) ELSE h2
    IN  [pd EXCEPT !.heap = h3, !.limit = value(h3)]

adjust_up(pd, streak_counter, locked) ==
    IF locked THEN pd
    ELSE IF streak_counter > 2 THEN adjust_up_streak(pd)
    ELSE IF has_children(pd.heap) THEN adjust_up_left(pd)
    ELSE adjust_up_leaf(pd)

\* adjust_down taking the left child, as adjust_up does
adjust_down_left(pd, locked) ==
    IF locked THEN pd
    ELSE IF has_children(pd.heap) THEN
        LET h1 == move_left(pd.heap)
        IN  [pd EXCEPT !.heap = h1, !.limit = value(h1)]
    ELSE pd

\* adjust_down moving the cursor and leaving the limit as it was
adjust_down_keeps_limit(pd, locked) ==
    IF locked THEN pd
    ELSE IF has_children(pd.heap) THEN [pd EXCEPT !.heap = move_right(pd.heap)]
    ELSE pd

adjust_down(pd, locked) ==
    IF locked THEN pd
    ELSE IF has_children(pd.heap) THEN
        LET h1 == move_right(pd.heap)
        IN  [pd EXCEPT !.heap = h1, !.limit = value(h1)]
    ELSE pd

(***************************************************************************)
(* FeroxScan counters and the trigger evaluator                            *)
(***************************************************************************)
num_errors(scan, trigger) ==
    CASE trigger = "Status403" -> scan.status_403s
      [] trigger = "Status429" -> scan.status_429s
      [] OTHER -> scan.errors

too_many_errors(scan, threads) ==
    LET total == num_errors(scan, "Errors")
        threshold == Max(threads \div 2, MinErrors)
    IN  total >= threshold

\* mutation of ratio_at_least: the ratio must exceed the threshold
ratio_above(total, requests, num, den) ==
    IF requests = 0 THEN total > 0 ELSE total * den > num * requests

\* total as f64 / requests as f64 >= num / den, for counts far below 2^53:
\* x / 0 is +inf for x > 0 (at least any ratio) and 0 / 0 is NaN (at least nothing)
ratio_at_least(total, requests, num, den) ==
    IF requests = 0 THEN total > 0 ELSE total * den >= num * requests

\* HIGH_ERROR_RATIO is 0.90, and 0.90 / 3.0 is the f64 nearest to 0.30
too_many_status_errors(scan, trigger) ==
    LET total == num_errors(scan, trigger)
        requests == scan.requests
    IN  CASE trigger = "Status403" ->
               ratio_at_least(total, requests, HighErrorRatioTenths, 10)
          [] trigger = "Status429" ->
               ratio_at_least(total, requests, HighErrorRatioTenths \div 3, 10)
          [] OTHER -> FALSE

\* mutation of should_enforce_policy: the minimum ignores the thread count
should_enforce_policy_min_only(cooling, requests, threads, scan) ==
    IF cooling THEN None
    ELSE IF requests < MinRequests THEN None
    ELSE IF too_many_errors(scan, threads) THEN Some("Errors")
    ELSE IF too_many_status_errors(scan, "Status403") THEN Some("Status403")
    ELSE IF too_many_status_errors(scan, "Status429") THEN Some("Status429")
    ELSE None

\* mutation of should_enforce_policy: the status codes are looked at first
should_enforce_policy_status_first(cooling, requests, threads, scan) ==
    IF cooling THEN None
    ELSE IF requests < Max(threads, MinRequests) THEN None
    ELSE IF too_many_status_errors(scan, "Status429") THEN Some("Status429")
    ELSE IF too_many_status_errors(scan, "Status403") THEN Some("Status403")
    ELSE IF too_many_errors(scan, threads) THEN Some("Errors")
    ELSE None

should_enforce_policy(cooling, requests, threads, scan) ==
    IF cooling THEN None
    ELSE IF requests < Max(threads, MinRequests) THEN None
    ELSE IF too_many_errors(scan, threads) THEN Some("Errors")
    ELSE IF too_many_status_errors(scan, "Status403") THEN Some("Status403")
    ELSE IF too_many_status_errors(scan, "Status429") THEN Some("Status429")
    ELSE None

(***************************************************************************)
(* Token bucket                                                            *)
(***************************************************************************)
\* (limit as f64 / d).round(): half away from zero
round_div(n, d) == (2 * n + d) \div (2 * d)

build_a_bucket(bucket_limit, serial) ==
    LET refill == Max(round_div(bucket_limit, 10), 1)
        tokens == Max(round_div(bucket_limit, 2), 1)
        interval == IF refill = 1 THEN 1000 ELSE 100
    IN  [max |-> bucket_limit, refill_amount |-> refill, tokens |-> tokens,
         refill_interval |-> interval, serial |-> serial]

\* mutation of set_rate_limiter: a bucket is built for every Some(n)
set_rate_limiter_rebuild(limiter, nbuilt, new_limit) ==
    IF new_limit = None THEN [rate_limiter |-> None, built |-> nbuilt]
    ELSE [rate_limiter |-> Some(build_a_bucket(unwrap(new_limit), nbuilt + 1)),
          built |-> nbuilt + 1]

\* returns the limiter and the number of buckets built after the call
set_rate_limiter(limiter, nbuilt, new_limit) ==
    IF new_limit = None THEN [rate_limiter |-> None, built |-> nbuilt]
    ELSE IF limiter # None /\ unwrap(limiter).max = unwrap(new_limit)
         THEN [rate_limiter |-> limiter, built |-> nbuilt]
    ELSE [rate_limiter |-> Some(build_a_bucket(unwrap(new_limit), nbuilt + 1)),
          built |-> nbuilt + 1]

(***************************************************************************)
(* Requester: construction                                                 *)
(***************************************************************************)
frame_default ==
    [trigger |-> None, should_limit |-> FALSE, scan_errors |-> 0,
     policy_errors |-> 0, new_limit |-> 0, limited |-> "none", guard |-> "none",
     error |-> "none"]

\* the scans registered beside the requester's own, as the bail tests set them up
OtherScans == {"one", "three", "four"}

\* Handles as the scanner hands it over: the other scans active, nothing sent
\* to the statistics handler yet
Handles_default ==
    [ferox_scans |-> [id \in OtherScans |-> "Running"],
     stats |-> [AddError |-> 0, SubtractFromUsizeField |-> 0]]

\* Requester::from and PolicyData::new, for a scan whose counters are cnt
Requester_from(cfg, sreq, cnt) ==
    /\ config = cfg
    /\ handles = Handles_default
    /\ stats_requests = sreq
    /\ ferox_scan = cnt
    /\ heap = LimitHeap_default
    /\ heap_lock = {}
    /\ limit = 0
    /\ errors = 0
    /\ remove_limit = FALSE
    /\ cooling_down = FALSE
    /\ tuning_lock = [held |-> FALSE, streak |-> 0]
    /\ rate_limiter = IF cfg.rate_limit > 0
                      THEN Some(build_a_bucket(cfg.rate_limit, 1)) ELSE None
    /\ built = IF cfg.rate_limit > 0 THEN 1 ELSE 0
    /\ pc = [w \in Workers |-> "idle"]
    /\ frame = [w \in Workers |-> frame_default]
    /\ issued = 0
    /\ last = [op |-> "new"]

\* the configurations the workers run under
Configs ==
    { [requester_policy |-> "AutoTune", auto_tune |-> TRUE, auto_bail |-> FALSE,
       rate_limit |-> 0, threads |-> 50],
      [requester_policy |-> "AutoBail", auto_tune |-> FALSE, auto_bail |-> TRUE,
       rate_limit |-> 0, threads |-> 50],
      [requester_policy |-> "Default", auto_tune |-> FALSE, auto_bail |-> FALSE,
       rate_limit |-> 100, threads |-> 50] }

\* scans under way, one response short of their thresholds
Scans ==
    { [errors |-> MinErrors - 1, status_403s |-> 0, status_429s |-> 14,
       requests |-> MinRequests - 1, status |-> "Running", aborted |-> FALSE],
      [errors |-> MinErrors - 1, status_403s |-> 44, status_429s |-> 0,
       requests |-> MinRequests - 1, status |-> "Running", aborted |-> FALSE] }

\* what FeroxScan::requests_per_second() as usize may give on a first tune
ReqsSec == {6, 400}

\* a requester that has tuned three times on general errors, from 400
\* requests/second, the last two times with no new error (SpecTune reaches it)
TunedRequester ==
    /\ config = CHOOSE cfg \in Configs : cfg.auto_tune
    /\ handles = Handles_default
    /\ stats_requests = MinRequests + 3
    /\ ferox_scan = [errors |-> MinErrors, status_403s |-> 0, status_429s |-> 0,
                     requests |-> MinRequests + 3, status |-> "Running", aborted |-> FALSE]
    /\ heap = move_to(build([LimitHeap_default EXCEPT !.original = 400]), 3)
    /\ heap_lock = {}
    /\ limit = 350
    /\ errors = MinErrors
    /\ remove_limit = FALSE
    /\ cooling_down = FALSE
    /\ tuning_lock = [held |-> FALSE, streak |-> 2]
    /\ rate_limiter = Some(build_a_bucket(350, 3))
    /\ built = 3
    /\ pc = [w \in Workers |-> "idle"]
    /\ frame = [w \in Workers |-> frame_default]
    /\ issued = 0
    /\ last = [op |-> "new"]

Init ==
    \/ \E cfg \in Configs, cnt \in Scans : Requester_from(cfg, MinRequests - 1, cnt)
    \/ TunedRequester

(***************************************************************************)
(* Requester::request, one step per atomic access of the shared state      *)
(***************************************************************************)
goto(w, label) == pc' = [pc EXCEPT ![w] = label]

should_tune == config.auto_tune \/ config.rate_limit > 0

\* the heap, limit and remove_limit after a PolicyData call
store_policy_data(pd) ==
    /\ heap' = pd.heap
    /\ limit' = pd.limit
    /\ remove_limit' = pd.remove_limit

\* the limiter after a set_rate_limiter call
store_rate_limiter(r) ==
    /\ rate_limiter' = r.rate_limiter
    /\ built' = r.built

\* top of the loop over the formatted urls: should_tune and should_limit
request_begin(w) ==
    /\ pc[w] = "idle"
    /\ issued < MaxRequests
    /\ issued' = issued + 1
    /\ frame' = [frame EXCEPT ![w] =
                    [frame_default EXCEPT !.should_limit = should_tune /\ rate_limiter # None]]
    /\ goto(w, IF should_tune /\ rate_limiter # None THEN "limit" ELSE "http")
    /\ UNCHANGED <<config, handles, stats_requests, ferox_scan, heap, heap_lock, limit, errors,
                   remove_limit, cooling_down, tuning_lock, rate_limiter, built, last>>

\* Requester::limit: unwrap of the limiter read again, then acquire_one
request_limit(w) ==
    /\ pc[w] = "limit"
    /\ frame' = [frame EXCEPT ![w].limited = IF rate_limiter = None THEN "none" ELSE "Ok"]
    /\ goto(w, IF rate_limiter = None THEN "panicked" ELSE "http")
    /\ UNCHANGED <<config, handles, stats_requests, ferox_scan, heap, heap_lock, limit, errors,
                   remove_limit, cooling_down, tuning_lock, rate_limiter, built,
                   issued, last>>

\* logged_request: the response is counted by the scan and the statistics;
\* a failed request is counted as an error and ends request() with Err
logged_request_counted(w, outcome) ==
    /\ pc[w] = "http"
    /\ stats_requests' = stats_requests + 1
    /\ ferox_scan' =
         CASE outcome = "403" -> [ferox_scan EXCEPT !.status_403s = @ + 1]
           [] outcome = "429" -> [ferox_scan EXCEPT !.status_429s = @ + 1]
           [] outcome = "err" -> [ferox_scan EXCEPT !.errors = @ + 1]
           [] OTHER -> ferox_scan
    /\ frame' = [frame EXCEPT ![w].error = IF outcome = "err" THEN "http" ELSE "none"]
    /\ goto(w, IF outcome = "err" THEN "return" ELSE "policy")
    /\ UNCHANGED <<config, handles, heap, heap_lock, limit, errors, remove_limit, cooling_down,
                   tuning_lock, rate_limiter, built, issued>>

\* let response = logged_request(&url, self.handles.clone()).await?
logged_request(w, outcome) == logged_request_counted(w, outcome) /\ UNCHANGED last

\* request_policy with the Default arm of the match tuning as AutoTune does
request_policy_default_tunes(w) ==
    /\ pc[w] = "policy"
    /\ LET trigger == should_enforce_policy(cooling_down, stats_requests,
                                            config.threads, ferox_scan)
           enforce == /\ (should_tune \/ config.auto_bail) /\ ~cooling_down
                      /\ trigger # None
       IN  /\ frame' = [frame EXCEPT ![w].trigger = IF enforce THEN trigger ELSE None]
           /\ goto(w, IF ~enforce THEN "emit"
                      ELSE IF config.requester_policy = "AutoBail" THEN "bail"
                      ELSE "tune")
    /\ UNCHANGED <<config, handles, stats_requests, ferox_scan, heap, heap_lock, limit, errors,
                   remove_limit, cooling_down, tuning_lock, rate_limiter, built,
                   issued, last>>

\* the cooling_down check of request() and the match on the policy, with the
\* call of should_enforce_policy
request_policy(w) ==
    /\ pc[w] = "policy"
    /\ LET trigger == should_enforce_policy(cooling_down, stats_requests,
                                            config.threads, ferox_scan)
           enforce == /\ (should_tune \/ config.auto_bail) /\ ~cooling_down
                      /\ config.requester_policy \in {"AutoTune", "AutoBail"}
                      /\ trigger # None
       IN  /\ frame' = [frame EXCEPT ![w].trigger = IF enforce THEN trigger ELSE None]
           /\ goto(w, IF ~enforce THEN "emit"
                      ELSE IF config.requester_policy = "AutoTune" THEN "tune"
                      ELSE "bail")
    /\ UNCHANGED <<config, handles, stats_requests, ferox_scan, heap, heap_lock, limit, errors,
                   remove_limit, cooling_down, tuning_lock, rate_limiter, built,
                   issued, last>>

\* Requester::tune: the load of policy_data.errors that decides whether to seed
tune_begin(w) ==
    /\ pc[w] = "tune"
    /\ goto(w, IF errors = 0 THEN "seed" ELSE "adjust")
    /\ UNCHANGED <<config, handles, stats_requests, ferox_scan, heap, heap_lock, limit, errors,
                   remove_limit, cooling_down, tuning_lock, rate_limiter, built, frame,
                   issued, last>>

\* set_reqs_sec with the scan's requests/second: takes the heap's writer
\* (waiting for it), builds the heap and stores the limit
tune_set_reqs_sec(w, reqs_sec) ==
    /\ pc[w] = "seed"
    /\ heap_lock = {}
    /\ heap_lock' = {w}
    /\ \E pd \in {set_reqs_sec(PD, reqs_sec)} : store_policy_data(pd)
    /\ goto(w, "seeded")
    /\ UNCHANGED <<config, handles, stats_requests, ferox_scan, errors, cooling_down, tuning_lock,
                   rate_limiter, built, frame, issued, last>>

\* the end of set_reqs_sec: the writer's guard is dropped
tune_seeded(w) ==
    /\ pc[w] = "seeded"
    /\ heap_lock' = heap_lock \ {w}
    /\ goto(w, "first_limit")
    /\ UNCHANGED <<config, handles, stats_requests, ferox_scan, heap, limit, errors, remove_limit,
                   cooling_down, tuning_lock, rate_limiter, built, frame, issued, last>>

\* let new_limit = self.policy_data.get_limit()
tune_get_limit(w) ==
    /\ pc[w] = "first_limit"
    /\ frame' = [frame EXCEPT ![w].new_limit = limit]
    /\ goto(w, "first_bucket")
    /\ UNCHANGED <<config, handles, stats_requests, ferox_scan, heap, heap_lock, limit, errors,
                   remove_limit, cooling_down, tuning_lock, rate_limiter, built,
                   issued, last>>

\* self.set_rate_limiter(Some(new_limit)) of the first tune
tune_set_rate_limiter(w) ==
    /\ pc[w] = "first_bucket"
    /\ store_rate_limiter(set_rate_limiter(rate_limiter, built, Some(frame[w].new_limit)))
    /\ frame' = [frame EXCEPT ![w].new_limit = 0]
    /\ goto(w, "adjust")
    /\ UNCHANGED <<config, handles, stats_requests, ferox_scan, heap, heap_lock, limit, errors,
                   remove_limit, cooling_down, tuning_lock, issued, last>>

\* adjust_limit: the two loads made before the lock is tried
adjust_limit_begin(w) ==
    /\ pc[w] = "adjust"
    /\ frame' = [frame EXCEPT ![w].scan_errors = num_errors(ferox_scan, unwrap(frame[w].trigger)),
                              ![w].policy_errors = errors]
    /\ goto(w, "try_lock")
    /\ UNCHANGED <<config, handles, stats_requests, ferox_scan, heap, heap_lock, limit, errors,
                   remove_limit, cooling_down, tuning_lock, rate_limiter, built,
                   issued, last>>

\* the body of adjust_limit under the tuning lock: the values after it
\* mutation of adjust_locked: adjust_down also on the first tune
adjust_locked_first_down(pd, perrors, streak, scan_errors, policy_errors, locked) ==
    IF scan_errors > policy_errors
    THEN [pd |-> adjust_down(pd, locked),
          errors |-> scan_errors,
          streak |-> 0]
    ELSE [pd |-> adjust_up(pd, streak + 1, locked),
          errors |-> perrors,
          streak |-> streak + 1]

\* adjust_locked calling adjust_up with the streak as it was before the increment
adjust_locked_stale_streak(pd, perrors, streak, scan_errors, policy_errors, locked) ==
    IF scan_errors > policy_errors
    THEN [pd |-> IF perrors # 0 THEN adjust_down(pd, locked) ELSE pd,
          errors |-> scan_errors,
          streak |-> 0]
    ELSE [pd |-> adjust_up(pd, streak, locked),
          errors |-> perrors,
          streak |-> streak + 1]

\* adjust_locked leaving the streak counter alone when the errors worsened
adjust_locked_keeps_streak(pd, perrors, streak, scan_errors, policy_errors, locked) ==
    IF scan_errors > policy_errors
    THEN [pd |-> IF perrors # 0 THEN adjust_down(pd, locked) ELSE pd,
          errors |-> scan_errors,
          streak |-> streak]
    ELSE [pd |-> adjust_up(pd, streak + 1, locked),
          errors |-> perrors,
          streak |-> streak + 1]

adjust_locked(pd, perrors, streak, scan_errors, policy_errors, locked) ==
    IF scan_errors > policy_errors
    THEN [pd |-> IF perrors # 0 THEN adjust_down(pd, locked) ELSE pd,
          errors |-> scan_errors,
          streak |-> 0]
    ELSE [pd |-> adjust_up(pd, streak + 1, locked),
          errors |-> perrors,
          streak |-> streak + 1]

\* adjust_limit_try_lock returning from adjust_limit at once when the lock is held
adjust_limit_try_lock_returns(w) ==
    /\ pc[w] = "try_lock"
    /\ IF tuning_lock.held
       THEN /\ goto(w, "cool_down")
            /\ UNCHANGED <<heap, limit, remove_limit, errors, tuning_lock>>
       ELSE LET r == adjust_locked(PD, errors, tuning_lock.streak, frame[w].scan_errors,
                                   frame[w].policy_errors, heap_lock # {})
            IN  /\ store_policy_data(r.pd)
                /\ errors' = r.errors
                /\ tuning_lock' = [held |-> TRUE, streak |-> r.streak]
                /\ goto(w, "unlock")
    /\ frame' = [frame EXCEPT ![w].scan_errors = 0, ![w].policy_errors = 0,
                              ![w].guard = IF tuning_lock.held THEN "Err" ELSE "Ok"]
    /\ UNCHANGED <<config, handles, stats_requests, ferox_scan, heap_lock, cooling_down,
                   rate_limiter, built, issued, last>>

\* self.tuning_lock.try_lock(): the body runs when the lock was free
\* (scan_errors and policy_errors are not read again: the frame drops them)
adjust_limit_try_lock(w) ==
    /\ pc[w] = "try_lock"
    /\ IF tuning_lock.held
       THEN /\ goto(w, "after_lock")
            /\ UNCHANGED <<heap, limit, remove_limit, errors, tuning_lock>>
       ELSE LET r == adjust_locked(PD, errors, tuning_lock.streak, frame[w].scan_errors,
                                   frame[w].policy_errors, heap_lock # {})
            IN  /\ store_policy_data(r.pd)
                /\ errors' = r.errors
                /\ tuning_lock' = [held |-> TRUE, streak |-> r.streak]
                /\ goto(w, "unlock")
    /\ frame' = [frame EXCEPT ![w].scan_errors = 0, ![w].policy_errors = 0,
                              ![w].guard = IF tuning_lock.held THEN "Err" ELSE "Ok"]
    /\ UNCHANGED <<config, handles, stats_requests, ferox_scan, heap_lock, cooling_down,
                   rate_limiter, built, issued, last>>

\* the guard of the tuning lock is dropped
adjust_limit_unlock(w) ==
    /\ pc[w] = "unlock"
    /\ tuning_lock' = [tuning_lock EXCEPT !.held = FALSE]
    /\ goto(w, "after_lock")
    /\ UNCHANGED <<config, handles, stats_requests, ferox_scan, heap, heap_lock, limit, errors,
                   remove_limit, cooling_down, rate_limiter, built, frame, issued, last>>

\* the load of remove_limit, and of the limit when create_limiter is true
adjust_limit_after(w) ==
    /\ pc[w] = "after_lock"
    /\ IF remove_limit
       THEN goto(w, "remove") /\ UNCHANGED frame
       ELSE goto(w, "bucket") /\ frame' = [frame EXCEPT ![w].new_limit = limit]
    /\ UNCHANGED <<config, handles, stats_requests, ferox_scan, heap, heap_lock, limit, errors,
                   remove_limit, cooling_down, tuning_lock, rate_limiter, built,
                   issued, last>>

\* self.set_rate_limiter(None)
adjust_limit_remove(w) ==
    /\ pc[w] = "remove"
    /\ store_rate_limiter(set_rate_limiter(rate_limiter, built, None))
    /\ goto(w, "removed")
    /\ UNCHANGED <<config, handles, stats_requests, ferox_scan, heap, heap_lock, limit, errors,
                   remove_limit, cooling_down, tuning_lock, frame, issued, last>>

\* atomic_store!(self.policy_data.remove_limit, false)
adjust_limit_removed(w) ==
    /\ pc[w] = "removed"
    /\ remove_limit' = FALSE
    /\ goto(w, "cool_down")
    /\ UNCHANGED <<config, handles, stats_requests, ferox_scan, heap, heap_lock, limit, errors,
                   cooling_down, tuning_lock, rate_limiter, built, frame, issued, last>>

\* self.set_rate_limiter(Some(new_limit))
adjust_limit_bucket(w) ==
    /\ pc[w] = "bucket"
    /\ store_rate_limiter(set_rate_limiter(rate_limiter, built, Some(frame[w].new_limit)))
    /\ frame' = [frame EXCEPT ![w].new_limit = 0]
    /\ goto(w, "cool_down")
    /\ UNCHANGED <<config, handles, stats_requests, ferox_scan, heap, heap_lock, limit, errors,
                   remove_limit, cooling_down, tuning_lock, issued, last>>

\* cool_down: the load of the flag
cool_down_load(w) ==
    /\ pc[w] = "cool_down"
    /\ goto(w, IF cooling_down THEN "emit" ELSE "cool_store")
    /\ UNCHANGED <<config, handles, stats_requests, ferox_scan, heap, heap_lock, limit, errors,
                   remove_limit, cooling_down, tuning_lock, rate_limiter, built, frame,
                   issued, last>>

\* cool_down: the flag is stored true and the sleep starts
cool_down_store(w) ==
    /\ pc[w] = "cool_store"
    /\ cooling_down' = TRUE
    /\ goto(w, "sleep")
    /\ UNCHANGED <<config, handles, stats_requests, ferox_scan, heap, heap_lock, limit, errors,
                   remove_limit, tuning_lock, rate_limiter, built, frame, issued, last>>

\* cool_down_wake without its store: the flag is left as it was
cool_down_wake_no_store(w) ==
    /\ pc[w] = "sleep"
    /\ goto(w, "emit")
    /\ UNCHANGED <<config, handles, stats_requests, ferox_scan, heap, heap_lock, limit, errors,
                   remove_limit, cooling_down, tuning_lock, rate_limiter, built, frame,
                   issued, last>>

\* cool_down: the sleep is over and the flag is stored false
cool_down_wake(w) ==
    /\ pc[w] = "sleep"
    /\ cooling_down' = FALSE
    /\ goto(w, "emit")
    /\ UNCHANGED <<config, handles, stats_requests, ferox_scan, heap, heap_lock, limit, errors,
                   remove_limit, tuning_lock, rate_limiter, built, frame, issued, last>>

\* FeroxScan::is_active: the scan is running
is_active(scan) == scan.status = "Running"

\* FeroxScan::set_status
set_status(scan, status) == [scan EXCEPT !.status = status]

\* FeroxScan::abort: the scan's task is aborted
abort(scan) == [scan EXCEPT !.aborted = TRUE]

\* stats.send(msg): one more message of that kind for the statistics handler
stats_send(h, msg) == [h EXCEPT !.stats[msg] = @ + 1]

\* bail without its check of is_active: the scan is cancelled whatever its status
bail_is_active_unchecked(w) ==
    /\ pc[w] = "bail"
    /\ goto(w, "set_status")
    /\ UNCHANGED <<config, handles, stats_requests, ferox_scan, heap, heap_lock, limit,
                   errors, remove_limit, cooling_down, tuning_lock, rate_limiter, built,
                   frame, issued, last>>

\* bail: the check of is_active
bail_is_active(w) ==
    /\ pc[w] = "bail"
    /\ goto(w, IF is_active(ferox_scan) THEN "set_status" ELSE "emit")
    /\ UNCHANGED <<config, handles, stats_requests, ferox_scan, heap, heap_lock, limit,
                   errors, remove_limit, cooling_down, tuning_lock, rate_limiter, built,
                   frame, issued, last>>

\* bail_set_status cancelling every scan of the registry along with its own
bail_set_status_all(w, ok) ==
    /\ pc[w] = "set_status"
    /\ ferox_scan' = IF ok THEN set_status(ferox_scan, "Cancelled") ELSE ferox_scan
    /\ handles' = [handles EXCEPT !.ferox_scans = [id \in OtherScans |-> "Cancelled"]]
    /\ goto(w, "abort")
    /\ UNCHANGED <<config, stats_requests, heap, heap_lock, limit, errors,
                   remove_limit, cooling_down, tuning_lock, rate_limiter, built, frame,
                   issued, last>>

\* bail: set_status(Cancelled); an Err (ok = FALSE) is logged and dropped
bail_set_status(w, ok) ==
    /\ pc[w] = "set_status"
    /\ ferox_scan' = IF ok THEN set_status(ferox_scan, "Cancelled") ELSE ferox_scan
    /\ goto(w, "abort")
    /\ UNCHANGED <<config, handles, stats_requests, heap, heap_lock, limit, errors,
                   remove_limit, cooling_down, tuning_lock, rate_limiter, built, frame,
                   issued, last>>

\* bail: abort().await; an Err is logged and dropped
bail_abort(w, ok) ==
    /\ pc[w] = "abort"
    /\ ferox_scan' = IF ok THEN abort(ferox_scan) ELSE ferox_scan
    /\ goto(w, "skipped")
    /\ UNCHANGED <<config, handles, stats_requests, heap, heap_lock, limit, errors,
                   remove_limit, cooling_down, tuning_lock, rate_limiter, built, frame,
                   issued, last>>

\* bail: the skipped requests are taken off the total; a failed send is logged
\* and dropped, and bail returns Ok(())
bail_send(w, ok) ==
    /\ pc[w] = "skipped"
    /\ handles' = IF ok THEN stats_send(handles, "SubtractFromUsizeField") ELSE handles
    /\ goto(w, "emit")
    /\ UNCHANGED <<config, stats_requests, ferox_scan, heap, heap_lock, limit, errors,
                   remove_limit, cooling_down, tuning_lock, rate_limiter, built, frame,
                   issued, last>>

\* Requester::bail, with every call it makes succeeding
bail(w) ==
    \/ bail_is_active(w)
    \/ bail_set_status(w, TRUE)
    \/ bail_abort(w, TRUE)
    \/ bail_send(w, TRUE)

\* the rest of the loop body: the response is handed on, and the scanner
\* advances the scan's progress bar
request_emit(w) ==
    /\ pc[w] = "emit"
    /\ ferox_scan' = [ferox_scan EXCEPT !.requests = @ + 1]
    /\ frame' = [frame EXCEPT ![w] = frame_default]
    /\ goto(w, "idle")
    /\ UNCHANGED <<config, handles, stats_requests, heap, heap_lock, limit, errors, remove_limit,
                   cooling_down, tuning_lock, rate_limiter, built, issued, last>>

\* request() returned Err(e): frame[w].error tells from which call
request_return(w) ==
    /\ pc[w] = "return"
    /\ frame' = [frame EXCEPT ![w] = frame_default]
    /\ goto(w, "idle")
    /\ UNCHANGED <<config, handles, stats_requests, ferox_scan, heap, heap_lock, limit, errors,
                   remove_limit, cooling_down, tuning_lock, rate_limiter, built,
                   issued, last>>

Outcomes == {"ok", "403", "429", "err"}

Step(w) ==
    \/ request_begin(w)
    \/ request_limit(w)
    \/ \E outcome \in Outcomes : logged_request(w, outcome)
    \/ request_policy(w)
    \/ tune_begin(w)
    \/ \E reqs_sec \in ReqsSec : tune_set_reqs_sec(w, reqs_sec)
    \/ tune_seeded(w)
    \/ tune_get_limit(w)
    \/ tune_set_rate_limiter(w)
    \/ adjust_limit_begin(w)
    \/ adjust_limit_try_lock(w)
    \/ adjust_limit_unlock(w)
    \/ adjust_limit_after(w)
    \/ adjust_limit_remove(w)
    \/ adjust_limit_removed(w)
    \/ adjust_limit_bucket(w)
    \/ cool_down_load(w)
    \/ cool_down_store(w)
    \/ cool_down_wake(w)
    \/ bail(w)
    \/ request_emit(w)
    \/ request_return(w)

Next == \E w \in Workers : Step(w)

Spec == Init /\ [][Next]_vars

\* a requester under AutoTune that has not tuned yet, after the first url of the
\* loop was answered without error (a state of Spec, one request on)
ServedRequester ==
    \E cnt \in Scans :
        /\ config = CHOOSE cfg \in Configs : cfg.auto_tune
        /\ handles = Handles_default
        /\ stats_requests = MinRequests
        /\ ferox_scan = [cnt EXCEPT !.requests = MinRequests]
        /\ heap = LimitHeap_default
        /\ heap_lock = {}
        /\ limit = 0
        /\ errors = 0
        /\ remove_limit = FALSE
        /\ cooling_down = FALSE
        /\ tuning_lock = [held |-> FALSE, streak |-> 0]
        /\ rate_limiter = None
        /\ built = 0
        /\ pc = [w \in Workers |-> "idle"]
        /\ frame = [w \in Workers |-> frame_default]
        /\ issued = 1
        /\ last = [op |-> "new"]

InitFair ==
    \/ \E cfg \in Configs, cnt \in Scans :
          ~cfg.auto_tune /\ Requester_from(cfg, MinRequests - 1, cnt)
    \/ ServedRequester
    \/ TunedRequester

\* the workers are tokio tasks: each is scheduled again and again, and a sleep ends
FairSpec == InitFair /\ [][Next]_vars /\ \A w \in Workers : WF_vars(Step(w))

(***************************************************************************)
(* SpecFault: the workers of Spec, from the requesters of InitFair, with   *)
(* the calls that return a Result failing as well: acquire_one in limit,   *)
(* LeakyBucket's build in set_rate_limiter, set_status, abort and the      *)
(* stats send in bail, and send_scan_command after the policy.             *)
(***************************************************************************)
\* request_limit_err handing the Err of limit() on, as a `?` would
request_limit_err_returned(w) ==
    /\ pc[w] = "limit"
    /\ rate_limiter # None
    /\ frame' = [frame EXCEPT ![w].limited = "Err", ![w].error = "limit"]
    /\ goto(w, "return")
    /\ UNCHANGED <<config, handles, stats_requests, ferox_scan, heap, heap_lock, limit,
                   errors, remove_limit, cooling_down, tuning_lock, rate_limiter, built,
                   issued, last>>

\* request(): limit() returned Err; it is logged, AddError(Other) goes to the
\* statistics handler and the loop body goes on to logged_request
request_limit_err(w) ==
    /\ pc[w] = "limit"
    /\ rate_limiter # None
    /\ frame' = [frame EXCEPT ![w].limited = "Err"]
    /\ handles' = stats_send(handles, "AddError")
    /\ goto(w, "http")
    /\ UNCHANGED <<config, stats_requests, ferox_scan, heap, heap_lock, limit, errors,
                   remove_limit, cooling_down, tuning_lock, rate_limiter, built,
                   issued, last>>

\* set_rate_limiter gets to build_a_bucket: a limit is given and the installed
\* bucket, if any, has another max
builds_a_bucket(limiter, new_limit) ==
    /\ new_limit # None
    /\ ~(limiter # None /\ unwrap(limiter).max = unwrap(new_limit))

\* build_a_bucket returned Err inside set_rate_limiter, called by tune or by
\* adjust_limit: each caller hands the Err on with `?`, up to request()
set_rate_limiter_err(w) ==
    /\ pc[w] \in {"first_bucket", "bucket"}
    /\ builds_a_bucket(rate_limiter, Some(frame[w].new_limit))
    /\ frame' = [frame EXCEPT ![w].error = "build_a_bucket"]
    /\ goto(w, "return")
    /\ UNCHANGED <<config, handles, stats_requests, ferox_scan, heap, heap_lock, limit,
                   errors, remove_limit, cooling_down, tuning_lock, rate_limiter, built,
                   issued, last>>

\* send_scan_command (TryRecursion or Sync) returned Err: request() returns it
send_scan_command_err(w) ==
    /\ pc[w] = "emit"
    /\ frame' = [frame EXCEPT ![w].error = "send_scan_command"]
    /\ goto(w, "return")
    /\ UNCHANGED <<config, handles, stats_requests, ferox_scan, heap, heap_lock, limit,
                   errors, remove_limit, cooling_down, tuning_lock, rate_limiter, built,
                   issued, last>>

StepFault(w) ==
    \/ Step(w)
    \/ request_limit_err(w)
    \/ set_rate_limiter_err(w)
    \/ bail_set_status(w, FALSE)
    \/ bail_abort(w, FALSE)
    \/ bail_send(w, FALSE)
    \/ send_scan_command_err(w)

NextFault == \E w \in Workers : StepFault(w)

SpecFault == InitFair /\ [][NextFault]_vars

(***************************************************************************)

(* SpecTune: one worker, no interleaving. The scan has 50 requests behind  *)
(* it and either 25 general errors or 45 responses of status 403, so that  *)
(* every request ends in tune; between two calls the scan's error count    *)
(* grows or not.                                                           *)
(* tune runs in two steps: the seeding of the first call, then             *)
(* adjust_limit and cool_down.                                             *)
(***************************************************************************)
MaxScanErrors == 31

Seeds == 0..MaxSeed \cup {400}

TuneConfig ==
    [requester_policy |-> "AutoTune", auto_tune |-> TRUE, auto_bail |-> FALSE,
     rate_limit |-> 0, threads |-> 50]

TuneScan ==
    [errors |-> MinErrors, status_403s |-> 0, status_429s |-> 0,
     requests |-> MinRequests, status |-> "Running", aborted |-> FALSE]

\* a scan that triggers on its 403s until its general errors reach 25
TuneScan403 ==
    [errors |-> MinErrors - 1, status_403s |-> 45, status_429s |-> 0,
     requests |-> MinRequests, status |-> "Running", aborted |-> FALSE]

InitTune == \E cnt \in {TuneScan, TuneScan403} : Requester_from(TuneConfig, MinRequests, cnt)

\* install_limit installing a bucket whatever create_limiter is
install_limit_always(limiter, nbuilt, pd, create_limiter) ==
    IF pd.remove_limit
    THEN set_rate_limiter(limiter, nbuilt, None)
    ELSE set_rate_limiter(limiter, nbuilt, Some(pd.limit))

\* the end of adjust_limit, run by one worker alone: the limiter after the
\* check of remove_limit and of create_limiter
install_limit(limiter, nbuilt, pd, create_limiter) ==
    IF pd.remove_limit
    THEN set_rate_limiter(limiter, nbuilt, None)
    ELSE IF create_limiter
    THEN set_rate_limiter(limiter, nbuilt, Some(pd.limit))
    ELSE [rate_limiter |-> limiter, built |-> nbuilt]

\* what the call is about to see
before_call ==
    [current |-> heap.current, value |-> value(heap), limit |-> limit, errors |-> errors,
     streak |-> tuning_lock.streak, remove_limit |-> remove_limit,
     rate_limiter |-> rate_limiter, built |-> built]

\* a failed request in between: FeroxScan::add_error
seq_add_error ==
    /\ pc[1] = "idle"
    /\ ferox_scan.errors < MaxScanErrors
    /\ ferox_scan' = [ferox_scan EXCEPT !.errors = @ + 1]
    /\ UNCHANGED <<config, handles, stats_requests, heap, heap_lock, limit, errors, remove_limit,
                   cooling_down, tuning_lock, rate_limiter, built, pc, frame, issued, last>>

\* request() up to the call of tune, and the first half of tune
seq_tune_begin(reqs_sec) ==
    /\ pc[1] = "idle"
    /\ should_tune /\ ~cooling_down /\ config.requester_policy = "AutoTune"
    /\ LET trigger == should_enforce_policy(cooling_down, stats_requests,
                                            config.threads, ferox_scan)
           pd == IF errors = 0 THEN set_reqs_sec(PD, reqs_sec) ELSE PD
           rl == IF errors = 0
                 THEN set_rate_limiter(rate_limiter, built, Some(pd.limit))
                 ELSE [rate_limiter |-> rate_limiter, built |-> built]
       IN  /\ trigger # None
           /\ errors # 0 => reqs_sec = 0
           /\ num_errors(ferox_scan, unwrap(trigger)) > errors \/ tuning_lock.streak < MaxStreak
           /\ frame' = [frame EXCEPT ![1].trigger = trigger]
           /\ store_policy_data(pd)
           /\ store_rate_limiter(rl)
           /\ last' = [op |-> IF errors = 0 THEN "set_reqs_sec" ELSE "tune",
                       reqs_sec |-> reqs_sec, call |-> "none", before |-> before_call,
                       run |-> IF last.op = "new" THEN 0 ELSE last.run]
    /\ goto(1, "adjust")
    /\ UNCHANGED <<config, handles, stats_requests, ferox_scan, heap_lock, errors, cooling_down,
                   tuning_lock, issued>>

\* adjust_limit(trigger, true) and cool_down, to the end of request()
seq_tune_adjust ==
    /\ pc[1] = "adjust"
    /\ LET scan_errors == num_errors(ferox_scan, unwrap(frame[1].trigger))
           r == adjust_locked(PD, errors, tuning_lock.streak, scan_errors, errors, FALSE)
           rl == install_limit(rate_limiter, built, r.pd, TRUE)
       IN  /\ store_policy_data([r.pd EXCEPT !.remove_limit = FALSE])
           /\ errors' = r.errors
           /\ tuning_lock' = [held |-> FALSE, streak |-> r.streak]
           /\ store_rate_limiter(rl)
           /\ last' = [op |-> "adjust_limit", reqs_sec |-> last.reqs_sec,
                       trigger |-> unwrap(frame[1].trigger),
                       scan_errors |-> scan_errors,
                       call |-> IF scan_errors > errors
                                THEN (IF errors # 0 THEN "adjust_down" ELSE "none")
                                ELSE "adjust_up",
                       removed |-> r.pd.remove_limit,
                       before |-> before_call,
                       run |-> IF scan_errors > errors THEN 0 ELSE last.run + 1]
    /\ frame' = [frame EXCEPT ![1] = frame_default]
    /\ goto(1, "idle")
    /\ UNCHANGED <<config, handles, stats_requests, ferox_scan, heap_lock, cooling_down, issued>>

NextTune ==
    \/ seq_add_error
    \/ \E reqs_sec \in Seeds : seq_tune_begin(reqs_sec)
    \/ seq_tune_adjust

SpecTune == InitTune /\ [][NextTune]_vars

(***************************************************************************)
(* SpecAdjust: PolicyData::adjust_up and PolicyData::adjust_down, called   *)
(* once on a tree built from one of a few seeds, with the cursor on any of *)
(* its nodes and the limit that node holds (the unit tests of the two      *)
(* functions place the cursor with move_to in the same way).               *)
(***************************************************************************)
AdjustSeeds == {6, 12, 400}

InitAdjust ==
    \E seed \in AdjustSeeds, index \in 0..(HeapLen - 1), remove \in BOOLEAN :
        \E h \in {move_to(build([LimitHeap_default EXCEPT !.original = seed]), index)} :
            /\ config = TuneConfig
            /\ handles = Handles_default
            /\ stats_requests = MinRequests
            /\ ferox_scan = TuneScan
            /\ heap = h
            /\ heap_lock = {}
            /\ limit = value(h)
            /\ errors = MinErrors
            /\ remove_limit = remove
            /\ cooling_down = FALSE
            /\ tuning_lock = [held |-> FALSE, streak |-> 0]
            /\ rate_limiter = None
            /\ built = 0
            /\ pc = [w \in Workers |-> "idle"]
            /\ frame = [w \in Workers |-> frame_default]
            /\ issued = 0
            /\ last = [op |-> "new"]

\* policy_data.adjust_up(&streak_counter)
call_adjust_up(streak_counter) ==
    /\ last.op = "new"
    /\ store_policy_data(adjust_up(PD, streak_counter, heap_lock # {}))
    /\ last' = [op |-> "adjust_up", streak_counter |-> streak_counter, before |-> before_call]
    /\ UNCHANGED <<config, handles, stats_requests, ferox_scan, heap_lock, errors, cooling_down,
                   tuning_lock, rate_limiter, built, pc, frame, issued>>

\* policy_data.adjust_down()
call_adjust_down ==
    /\ last.op = "new"
    /\ store_policy_data(adjust_down(PD, heap_lock # {}))
    /\ last' = [op |-> "adjust_down", streak_counter |-> 0, before |-> before_call]
    /\ UNCHANGED <<config, handles, stats_requests, ferox_scan, heap_lock, errors, cooling_down,
                   tuning_lock, rate_limiter, built, pc, frame, issued>>

NextAdjust ==
    \/ \E streak_counter \in 0..MaxStreak : call_adjust_up(streak_counter)
    \/ call_adjust_down

SpecAdjust == InitAdjust /\ [][NextAdjust]_vars

(***************************************************************************)

(* SpecLimit: Requester::adjust_limit called once by one worker, as its    *)
(* unit tests call it: on the tree of 400 with the cursor on one of a few  *)
(* nodes, a streak counter, remove_limit and a limiter set beforehand, a   *)
(* scan with as many errors as policy_data.errors or one more, and         *)
(* create_limiter true or false.                                           *)
(***************************************************************************)
LimitIndexes == {0, 1, 3, 4, 15, 127, 240}

InitLimit ==
    \E t \in {build([LimitHeap_default EXCEPT !.original = 400])} :
        \E index \in LimitIndexes, streak \in 0..(MaxStreak - 1), remove \in BOOLEAN,
           more \in 0..1, other \in BOOLEAN, present \in BOOLEAN :
          \E installed \in {IF ~present THEN 0 ELSE IF other THEN 200 ELSE value(move_to(t, index))} :
            /\ config = TuneConfig
            /\ handles = Handles_default
            /\ stats_requests = MinRequests
            /\ ferox_scan = [TuneScan EXCEPT !.errors = MinErrors + more]
            /\ heap = move_to(t, index)
            /\ heap_lock = {}
            /\ limit = t.inner[index]
            /\ errors = MinErrors
            /\ remove_limit = remove
            /\ cooling_down = FALSE
            /\ tuning_lock = [held |-> FALSE, streak |-> streak]
            /\ rate_limiter = IF installed = 0 THEN None
                              ELSE Some(build_a_bucket(installed, 1))
            /\ built = IF installed = 0 THEN 0 ELSE 1
            /\ pc = [w \in Workers |-> "idle"]
            /\ frame = [w \in Workers |-> frame_default]
            /\ issued = 0
            /\ last = [op |-> "new"]

\* self.adjust_limit(PolicyTrigger::Errors, create_limiter)
call_adjust_limit(create_limiter) ==
    /\ last.op = "new"
    /\ LET scan_errors == num_errors(ferox_scan, "Errors")
           r == adjust_locked(PD, errors, tuning_lock.streak, scan_errors, errors, FALSE)
       IN  /\ store_policy_data([r.pd EXCEPT !.remove_limit = FALSE])
           /\ errors' = r.errors
           /\ tuning_lock' = [held |-> FALSE, streak |-> r.streak]
           /\ store_rate_limiter(install_limit(rate_limiter, built, r.pd, create_limiter))
           /\ last' = [op |-> "adjust_limit", create_limiter |-> create_limiter,
                       removed |-> r.pd.remove_limit, before |-> before_call]
    /\ UNCHANGED <<config, handles, stats_requests, ferox_scan, heap_lock, cooling_down,
                   pc, frame, issued>>

NextLimit == \E create_limiter \in BOOLEAN : call_adjust_limit(create_limiter)

SpecLimit == InitLimit /\ [][NextLimit]_vars

(***************************************************************************)

(* SpecRequest: one worker going through the loop of Requester::request    *)
(* url by url, with the end of the loop body step by step: the recursion   *)
(* hand-off, the filters, the extractor and the report. The scan is young  *)
(* (no policy is enforced yet); `last` keeps what happened to the url      *)
(* since its request was sent.                                             *)
(***************************************************************************)
\* the configurations of Configs with no_recursion and extract_links
RequestConfigs ==
    { [requester_policy |-> cfg.requester_policy, auto_tune |-> cfg.auto_tune,
       auto_bail |-> cfg.auto_bail, rate_limit |-> cfg.rate_limit, threads |-> cfg.threads,
       no_recursion |-> no_recursion, extract_links |-> extract_links] :
      cfg \in Configs, no_recursion \in BOOLEAN, extract_links \in BOOLEAN }

\* a scan that has just started
YoungScan ==
    [errors |-> 0, status_403s |-> 0, status_429s |-> 0,
     requests |-> 0, status |-> "Running", aborted |-> FALSE]

InitRequest == \E cfg \in RequestConfigs : Requester_from(cfg, 0, YoungScan)

\* the statuses logged_request can come back with, a redirection among them
Responses == Outcomes \cup {"301"}

\* logged_request for the url of this iteration
seq_logged_request(outcome) ==
    /\ logged_request_counted(1, outcome)
    /\ last' = [op |-> "request", response |-> outcome,
                should_limit |-> frame[1].should_limit, limited |-> frame[1].limited,
                log |-> <<"logged_request">>]

\* what is left unchanged by the end of the loop body
tail_unchanged ==
    UNCHANGED <<config, handles, stats_requests, heap, heap_lock, limit, errors, remove_limit,
                cooling_down, tuning_lock, rate_limiter, built, issued>>

logs(event) == last' = [last EXCEPT !.log = Append(@, event)]

\* the url is done: the loop goes on to the next one
next_url(w) ==
    /\ ferox_scan' = [ferox_scan EXCEPT !.requests = @ + 1]
    /\ frame' = [frame EXCEPT ![w] = frame_default]
    /\ goto(w, "idle")

\* the recursion hand-off left out
request_recursion_skipped(w) ==
    /\ pc[w] = "emit"
    /\ goto(w, "filter")
    /\ UNCHANGED <<ferox_scan, frame, last>>
    /\ tail_unchanged

\* if !no_recursion: send_scan_command(TryRecursion(response)), then
\* send_scan_command(Sync(tx))
request_recursion(w) ==
    /\ pc[w] = "emit"
    /\ IF config.no_recursion
       THEN goto(w, "filter") /\ UNCHANGED last
       ELSE /\ goto(w, "sync")
            /\ last' = [last EXCEPT !.log = @ \o <<"TryRecursion", "Sync">>]
    /\ UNCHANGED <<ferox_scan, frame>>
    /\ tail_unchanged

\* rx.await?: the scan handler has answered the Sync
request_sync(w) ==
    /\ pc[w] = "sync"
    /\ logs("reply")
    /\ goto(w, "filter")
    /\ UNCHANGED <<ferox_scan, frame>>
    /\ tail_unchanged

\* should_filter_response: on a hit, continue
request_filter(w, hit) ==
    /\ pc[w] = "filter"
    /\ IF hit
       THEN logs("filtered") /\ next_url(w)
       ELSE logs("kept") /\ goto(w, "extract") /\ UNCHANGED <<ferox_scan, frame>>
    /\ tail_unchanged

\* if extract_links && !is_redirection: the extractor runs on the response
request_extract(w) ==
    /\ pc[w] = "extract"
    /\ IF config.extract_links /\ last.response # "301"
       THEN logs("extract")
       ELSE UNCHANGED last
    /\ goto(w, "report")
    /\ UNCHANGED <<ferox_scan, frame>>
    /\ tail_unchanged

\* ferox_response.send_report(output.tx)
request_report(w) ==
    /\ pc[w] = "report"
    /\ logs("send_report")
    /\ next_url(w)
    /\ tail_unchanged

NextRequest ==
    \/ request_begin(1)
    \/ request_limit(1)
    \/ \E outcome \in Responses : seq_logged_request(outcome)
    \/ request_policy(1)
    \/ request_recursion(1)
    \/ request_sync(1)
    \/ \E hit \in BOOLEAN : request_filter(1, hit)
    \/ request_extract(1)
    \/ request_report(1)
    \/ request_return(1)

SpecRequest == InitRequest /\ [][NextRequest]_vars

(***************************************************************************)

(* SpecBucket: Requester::build_a_bucket applied once to each limit from 1 *)
(* to MaxLimit, on a requester that has no limiter yet.                    *)
(***************************************************************************)
MaxLimit == 120

InitBucket == Requester_from(TuneConfig, MinRequests, TuneScan)

\* Self::build_a_bucket(n), the bucket stored as set_rate_limiter does
call_build_a_bucket(n) ==
    /\ last.op = "new"
    /\ store_rate_limiter([rate_limiter |-> Some(build_a_bucket(n, built + 1)),
                           built |-> built + 1])
    /\ last' = [op |-> "build_a_bucket", limit |-> n]
    /\ UNCHANGED <<config, handles, stats_requests, ferox_scan, heap, heap_lock, limit, errors,
                   remove_limit, cooling_down, tuning_lock, pc, frame, issued>>

NextBucket == \E n \in 1..MaxLimit : call_build_a_bucket(n)

SpecBucket == InitBucket /\ [][NextBucket]_vars

(***************************************************************************)

(* SpecPolicy: should_enforce_policy, called once on a requester whose     *)
(* configuration, statistics and scan counters are drawn from sets that    *)
(* straddle each threshold (and the cooling_down flag from both values).   *)
(***************************************************************************)
ThreadCounts == {1, 50, 51, 62}
RequestCounts == {0, 10, 49, 50, 51, 61, 62}
ErrorCounts == {0, 24, 25, 26, 30, 31}
Status403Counts == {0, 1, 8, 9, 44, 45, 46}
Status429Counts == {0, 1, 2, 3, 14, 15, 16}
ScanRequestCounts == {0, 10, 49, 50, 51}

InitPolicy ==
    \E threads \in ThreadCounts, sreq \in RequestCounts, e \in ErrorCounts,
       s403 \in Status403Counts, s429 \in Status429Counts, req \in ScanRequestCounts,
       cooling \in BOOLEAN :
        /\ config = [TuneConfig EXCEPT !.threads = threads]
        /\ handles = Handles_default
        /\ stats_requests = sreq
        /\ ferox_scan = [errors |-> e, status_403s |-> s403, status_429s |-> s429,
                         requests |-> req, status |-> "Running", aborted |-> FALSE]
        /\ heap = LimitHeap_default
        /\ heap_lock = {}
        /\ limit = 0
        /\ errors = 0
        /\ remove_limit = FALSE
        /\ cooling_down = cooling
        /\ tuning_lock = [held |-> FALSE, streak |-> 0]
        /\ rate_limiter = None
        /\ built = 0
        /\ pc = [w \in Workers |-> "idle"]
        /\ frame = [w \in Workers |-> frame_default]
        /\ issued = 0
        /\ last = [op |-> "new"]

\* the call, its result kept in last
call_should_enforce_policy ==
    /\ last.op = "new"
    /\ last' = [op |-> "should_enforce_policy",
                result |-> should_enforce_policy(cooling_down, stats_requests,
                                                 config.threads, ferox_scan)]
    /\ UNCHANGED <<config, handles, stats_requests, ferox_scan, heap, heap_lock, limit, errors,
                   remove_limit, cooling_down, tuning_lock, rate_limiter, built, pc, frame,
                   issued>>

NextPolicy == call_should_enforce_policy

SpecPolicy == InitPolicy /\ [][NextPolicy]_vars

(***************************************************************************)
(* Properties of cool_down (Spec, FairSpec)                                *)
(***************************************************************************)
\* the workers inside the sleep of cool_down
Sleeping == {w \in Workers : pc[w] = "sleep"}

\* the workers inside cool_down, from its call to its return
InCoolDown == {w \in Workers : pc[w] \in {"cool_down", "cool_store", "sleep"}}

\* C1: at most one worker is inside the cooldown sleep at any time
C1_SingleCooldownWindow == Cardinality(Sleeping) <= 1

\* C2: while cooling_down is true no step changes the tree cursor, the limit,
\* policy_data.errors, the streak counter or the rate limiter
C2_NoAdjustmentWhileCooling ==
    [][cooling_down =>
          /\ heap'.current = heap.current
          /\ limit' = limit
          /\ errors' = errors
          /\ tuning_lock'.streak = tuning_lock.streak
          /\ rate_limiter' = rate_limiter]_vars

\* C3: whenever some worker sleeps inside cool_down, cooling_down is true
C3_FlagTrueWhileSleeping == Sleeping # {} => cooling_down

\* C4: whenever no worker is inside cool_down the flag is false, and every
\* call of cool_down returns
C4_CooldownEnds ==
    /\ [](InCoolDown = {} => ~cooling_down)
    /\ \A w \in Workers : (w \in InCoolDown) ~> (w \notin InCoolDown)

\* C4 witness: every worker has been through tune and cool_down, and the
\* window is closed again
C4_Witness ==
    /\ \A w \in Workers : pc[w] = "emit" /\ frame[w].trigger # None
    /\ config.requester_policy = "AutoTune"
    /\ InCoolDown = {}
    /\ ~cooling_down

(***************************************************************************)
(* Properties of should_enforce_policy (SpecPolicy). The thresholds are    *)
(* written out here as the documentation states them.                      *)
(***************************************************************************)
\* should_enforce_policy has been called
Called == last.op = "should_enforce_policy"

\* the call was made outside a cooldown and past the minimum request count
PastGate ==
    Called /\ ~cooling_down /\ stats_requests >= config.threads /\ stats_requests >= 50

\* the scan's error count >= max(threads / 2, 25)
ErrorsMet ==
    ferox_scan.errors >= 25 /\ ferox_scan.errors >= config.threads \div 2

\* 403-count / per-scan requests >= 0.90; over 0 requests a count above 0
\* divides to +inf and a count of 0 to NaN
Status403Met ==
    IF ferox_scan.requests = 0 THEN ferox_scan.status_403s > 0
    ELSE ferox_scan.status_403s * 100 >= 90 * ferox_scan.requests

\* 429-count / per-scan requests >= 0.30
Status429Met ==
    IF ferox_scan.requests = 0 THEN ferox_scan.status_429s > 0
    ELSE ferox_scan.status_429s * 100 >= 30 * ferox_scan.requests

\* C5: should_enforce_policy returns None whenever stats.requests is below
\* max(threads, 50), whatever the scan's counters are
C5_NoneBelowMinimum ==
    (Called /\ (stats_requests < config.threads \/ stats_requests < 50))
        => last.result = None

\* C5 witness: 61 requests under 62 threads, outside a cooldown, with the
\* error threshold met: the call returned None
C5_Witness ==
    /\ Called /\ ~cooling_down
    /\ stats_requests = 61 /\ config.threads = 62
    /\ ErrorsMet
    /\ last.result = None

\* C6: when several thresholds are met at once the result is Errors in
\* preference to Status403, and Status403 in preference to Status429
C6_TriggerOrder ==
    PastGate =>
        /\ (ErrorsMet /\ (Status403Met \/ Status429Met)) => last.result = Some("Errors")
        /\ (~ErrorsMet /\ Status403Met /\ Status429Met) => last.result = Some("Status403")

\* C6 witness: all three thresholds met, and the call returned Errors
C6_Witness ==
    /\ PastGate
    /\ ErrorsMet /\ Status403Met /\ Status429Met
    /\ last.result = Some("Errors")

Seeded == last.op = "set_reqs_sec"

C9_HeapOrdered ==
    \A i \in 0..((HeapLen - 3) \div 2) :
        heap.inner[2 * i + 1] >= heap.inner[i] /\ heap.inner[i] >= heap.inner[2 * i + 2]

\* C10: adjust_up leaves the limit greater than or equal to the limit it had
\* before the call (SpecTune)
C10_AdjustUpRaises ==
    (last.op = "adjust_limit" /\ last.call = "adjust_up") => limit >= last.before.limit

(***************************************************************************)
(* Properties of set_rate_limiter and of the first tune (SpecTune)         *)
(***************************************************************************)
\* adjust_limit has just run, and its set_rate_limiter with it
Adjusted == last.op = "adjust_limit"

\* C11: set_rate_limiter(None) leaves the limiter absent; set_rate_limiter(Some(n))
\* on a bucket of max n leaves that very bucket and builds none; any other
\* Some(n) installs a bucket built for the call, with max n
C11_SetRateLimiter ==
    Adjusted =>
        IF last.removed
        THEN rate_limiter = None /\ built = last.before.built
        ELSE IF last.before.rate_limiter # None
                /\ unwrap(last.before.rate_limiter).max = limit
        THEN rate_limiter = last.before.rate_limiter /\ built = last.before.built
        ELSE /\ rate_limiter # None
             /\ unwrap(rate_limiter).max = limit
             /\ unwrap(rate_limiter).serial = last.before.built + 1
             /\ built = last.before.built + 1

\* C11 witness: a limit of 200 was asked for while the bucket of max 200 was
\* installed, and the bucket is the one that was there
C11_Witness ==
    /\ Adjusted /\ ~last.removed
    /\ limit = 200
    /\ last.before.rate_limiter # None
    /\ unwrap(last.before.rate_limiter).max = 200
    /\ rate_limiter = last.before.rate_limiter
    /\ built = last.before.built

\* the first tune of the requester has just returned
FirstTuned == Adjusted /\ last.before.errors = 0

\* C12: when the first tune returns, with N the observed rate, the limit is N/2,
\* the cursor is at the root, policy_data.errors is the scan's count for the
\* trigger (read by adjust_limit), the streak is 0 and the one bucket built so
\* far, of max N/2, is installed
C12_FirstTune ==
    FirstTuned =>
        /\ limit = last.reqs_sec \div 2
        /\ heap.current = 0
        /\ errors = last.scan_errors
        /\ errors > 0
        /\ tuning_lock.streak = 0
        /\ rate_limiter # None
        /\ unwrap(rate_limiter).max = last.reqs_sec \div 2
        /\ built = 1
        /\ ~cooling_down

\* C12 witness: a first tune on 403s at 400 requests/second has returned
C12_Witness ==
    /\ FirstTuned
    /\ last.reqs_sec = 400 /\ last.trigger = "Status403"
    /\ limit = 200 /\ errors = 45
    /\ unwrap(rate_limiter).serial = 1

(***************************************************************************)
(* Properties of the installed bucket under concurrent tuning (Spec)       *)
(***************************************************************************)
\* the workers inside tune: its seeding, adjust_limit, set_rate_limiter, cool_down
InTune ==
    {w \in Workers :
        pc[w] \in {"tune", "seed", "seeded", "first_limit", "first_bucket", "adjust",
                   "try_lock", "unlock", "after_lock", "remove", "removed", "bucket",
                   "cool_down", "cool_store", "sleep"}}

\* C13: once an adjust_limit has recorded the scan's errors and no worker is
\* inside tune, an installed bucket has max = policy_data.limit
C13_BucketMatchesLimit ==
    (config.auto_tune /\ errors # 0 /\ InTune = {} /\ rate_limiter # None)
        => unwrap(rate_limiter).max = limit

(***************************************************************************)
(* Properties of bail (Spec, SpecFault)                                    *)
(***************************************************************************)
\* the workers inside bail that found their scan active
Bailing == {w \in Workers : pc[w] \in {"set_status", "abort", "skipped"}}

BailPcs == {"bail", "set_status", "abort", "skipped"}

\* C15: bail always returns Ok. On a scan that is not active it returns at once:
\* no status changes, nothing is aborted, no message goes to the statistics
\* handler. On an active scan every step of bail, failed or not, leads to the
\* next step of bail or back to request() with Ok (never to its Err return),
\* and a failed step changes neither the scan nor what was sent.
C15_BailReturnsOk ==
    [][\A w \in Workers :
          (pc[w] \in BailPcs /\ pc'[w] # pc[w]) =>
              /\ pc'[w] \in BailPcs \cup {"emit"}
              /\ frame'[w].error = "none"
              /\ (pc[w] = "bail" /\ ~is_active(ferox_scan)) =>
                    /\ pc'[w] = "emit"
                    /\ ferox_scan' = ferox_scan
                    /\ handles' = handles]_vars

\* a bail whose set_status, abort and stats send all failed is back in request()
C15_Witness ==
    \E w \in Workers :
        /\ config.requester_policy = "AutoBail"
        /\ pc[w] = "emit" /\ frame[w].trigger # None
        /\ is_active(ferox_scan) /\ ~ferox_scan.aborted
        /\ handles.stats.SubtractFromUsizeField = 0

(***************************************************************************)
(* Properties of the error handling of request() (SpecFault)               *)
(***************************************************************************)
\* C16: request() returns Err only for an error of the HTTP request or of the
\* scan-command channel, never for one of the rate-limit subsystem
C16_NoRateLimitError ==
    \A w \in Workers :
        pc[w] = "return" => frame[w].error \in {"http", "send_scan_command"}

\* C17: when the token acquisition of request() fails, exactly one
\* AddError(Other) is sent to the statistics handler, request() does not return
\* and its next step is the HTTP request of that url; no other step sends AddError
C17_AcquireErrorRecorded ==
    [][\A w \in Workers :
          /\ (pc[w] = "limit" /\ frame'[w].limited = "Err") =>
                /\ handles' = stats_send(handles, "AddError")
                /\ frame'[w].error = "none"
                /\ pc'[w] = "http"
          /\ (\A v \in Workers : pc[v] = "limit" => frame'[v].limited # "Err") =>
                handles'.stats.AddError = handles.stats.AddError]_vars

\* the response of a request whose token acquisition failed has arrived
C17_Witness ==
    \E w \in Workers :
        /\ frame[w].limited = "Err" /\ pc[w] = "policy"
        /\ handles.stats.AddError = 1

(***************************************************************************)
(* Properties of the policy dispatch of request() (Spec)                   *)
(***************************************************************************)
\* what holds when worker w is sent to tune or bail: the policy is the one
\* given, tuning or bailing is configured, the flag is down and
\* should_enforce_policy gave the trigger the worker carries
Dispatched(w, policy) ==
    /\ config.requester_policy = policy
    /\ config.auto_tune \/ config.rate_limit > 0 \/ config.auto_bail
    /\ ~cooling_down
    /\ should_enforce_policy(cooling_down, stats_requests, config.threads, ferox_scan) # None
    /\ frame'[w].trigger =
          should_enforce_policy(cooling_down, stats_requests, config.threads, ferox_scan)

\* C18: a worker enters tune only under AutoTune and bail only under AutoBail,
\* each only with a trigger from should_enforce_policy, with (auto_tune or
\* rate_limit > 0 or auto_bail) and with cooling_down false; under the Default
\* policy no step changes the limit, the cursor, the streak, the policy errors,
\* the rate limiter or the scan's status
C18_PolicyDispatch ==
    [][\A w \in Workers :
          /\ (pc[w] # "tune" /\ pc'[w] = "tune") => Dispatched(w, "AutoTune")
          /\ (pc[w] # "bail" /\ pc'[w] = "bail") => Dispatched(w, "AutoBail")
          /\ config.requester_policy = "Default" =>
                /\ UNCHANGED <<limit, heap, tuning_lock, errors, rate_limiter>>
                /\ ferox_scan'.status = ferox_scan.status]_vars

\* under Default a response met a threshold and the worker is past the dispatch
C18_Witness ==
    \E w \in Workers :
        /\ config.requester_policy = "Default" /\ config.rate_limit > 0
        /\ pc[w] = "emit" /\ frame[w].trigger = None
        /\ ~cooling_down
        /\ should_enforce_policy(cooling_down, stats_requests, config.threads, ferox_scan) # None
        /\ limit = 0 /\ heap.current = 0 /\ tuning_lock.streak = 0 /\ errors = 0
        /\ rate_limiter # None /\ unwrap(rate_limiter).max = config.rate_limit
        /\ ferox_scan.status = "Running"

(***************************************************************************)
(* Properties of the values build derives (SpecTune)                       *)
(***************************************************************************)
\* C19: after set_reqs_sec with a positive number of requests/second, no slot
\* of the tree holds 0
C19_BuildPositive ==
    (Seeded /\ last.reqs_sec > 0) => \A i \in DOMAIN heap.inner : heap.inner[i] > 0

\* C20: once tune has seeded the tree with 0 requests/second (original = 0),
\* every slot of the tree is 0, the limit is 0 and no bucket is installed
C20_ZeroOriginalNoBucket ==
    (last.op # "new" /\ heap.original = 0) =>
        /\ \A i \in DOMAIN heap.inner : heap.inner[i] = 0
        /\ limit = 0
        /\ rate_limiter = None

(***************************************************************************)
(* Properties of adjust_down and adjust_up (SpecAdjust)                    *)
(***************************************************************************)
\* the node the call started from, its value and the first leaf of the tree
Start == last.before.current
StartValue == last.before.value
FirstLeaf == (HeapLen - 1) \div 2

\* C21: adjust_down from a node with children moves the cursor to its right
\* child and stores that child's value as the limit; from a leaf (index >= 127)
\* it leaves the cursor, the limit and remove_limit as they were
C21_AdjustDown ==
    last.op = "adjust_down" =>
        /\ remove_limit = last.before.remove_limit
        /\ heap.inner = build([LimitHeap_default EXCEPT !.original = heap.original]).inner
        /\ IF Start < FirstLeaf
           THEN heap.current = 2 * Start + 2 /\ limit = heap.inner[2 * Start + 2]
           ELSE heap.current = Start /\ limit = last.before.limit

\* adjust_down was called on the leaf of index 127
C21_Witness ==
    /\ last.op = "adjust_down" /\ Start = 127 /\ heap.original = 400
    /\ heap.current = 127 /\ limit = last.before.limit

\* C22: adjust_up with a streak of at most 2 from a node with children moves
\* the cursor to its left child and stores that child's value as the limit,
\* whatever remove_limit is; from the root the limit becomes inner[1]
C22_AdjustUpLeft ==
    (last.op = "adjust_up" /\ last.streak_counter <= 2 /\ Start < FirstLeaf) =>
        /\ heap.current = 2 * Start + 1
        /\ limit = heap.inner[2 * Start + 1]
        /\ Start = 0 => limit = heap.inner[1]
        /\ remove_limit = last.before.remove_limit
        /\ heap.inner = build([LimitHeap_default EXCEPT !.original = heap.original]).inner

\* adjust_up(0) at the root of the tree of 400: the limit is 300
C22_Witness ==
    /\ last.op = "adjust_up" /\ last.streak_counter = 0 /\ Start = 0
    /\ heap.original = 400 /\ heap.current = 1 /\ limit = 300

\* the index one move_up above index i (the root stays where it is)
Up(i) == IF i > 0 THEN (i - 1) \div 2 ELSE 0

\* C23 as stated: on a streak above 2, with c the value at the start and n the
\* node two moves up: if c > inner[n], the cursor ends one further up when n has
\* a parent holding more than c, and otherwise stays on n with remove_limit set;
\* if c <= inner[n] it stays on n; the limit is the value at the final cursor
C23_AdjustUpStreak ==
    (last.op = "adjust_up" /\ last.streak_counter > 2) =>
        LET n == Up(Up(Start))
        IN  /\ limit = heap.inner[heap.current]
            /\ IF StartValue > heap.inner[n]
               THEN IF n > 0 /\ heap.inner[Up(n)] > StartValue
                    THEN heap.current = Up(n) /\ remove_limit = last.before.remove_limit
                    ELSE heap.current = n /\ remove_limit
               ELSE heap.current = n /\ remove_limit = last.before.remove_limit

\* C23 as the code has it: remove_limit is set only when the node two moves up
\* is the root (and c exceeds its value); when that node has a parent holding
\* no more than c, the cursor stays on it and remove_limit is left as it was
C23_AdjustUpStreakRoot ==
    (last.op = "adjust_up" /\ last.streak_counter > 2) =>
        LET n == Up(Up(Start))
        IN  /\ limit = heap.inner[heap.current]
            /\ heap.inner = build([LimitHeap_default EXCEPT !.original = heap.original]).inner
            /\ IF StartValue > heap.inner[n] /\ n > 0 /\ heap.inner[Up(n)] > StartValue
               THEN heap.current = Up(n) /\ remove_limit = last.before.remove_limit
               ELSE IF StartValue > heap.inner[n] /\ n = 0
               THEN heap.current = 0 /\ remove_limit
               ELSE heap.current = n /\ remove_limit = last.before.remove_limit

\* adjust_up(3) from index 15 (387) of the tree of 400 stops on index 3 (350),
\* whose parent holds 300, and does not set remove_limit
C23_Witness ==
    /\ last.op = "adjust_up" /\ last.streak_counter = 3
    /\ heap.original = 400 /\ Start = 15 /\ StartValue = 387
    /\ heap.current = 3 /\ limit = 350
    /\ ~last.before.remove_limit /\ ~remove_limit

\* C24: adjust_up with a streak of at most 2 from a leaf, c being the leaf's
\* value: the cursor ends two moves up, or three iff c exceeds the value two
\* moves up; the limit is the value at the final cursor and remove_limit is
\* left as it was
C24_AdjustUpLeaf ==
    (last.op = "adjust_up" /\ last.streak_counter <= 2 /\ Start >= FirstLeaf) =>
        LET n == Up(Up(Start))
        IN  /\ heap.current = IF StartValue > heap.inner[n] THEN Up(n) ELSE n
            /\ limit = heap.inner[heap.current]
            /\ remove_limit = last.before.remove_limit
            /\ heap.inner = build([LimitHeap_default EXCEPT !.original = heap.original]).inner
            /\ (heap.original = 400 /\ Start = 241) => limit = 43
            /\ (heap.original = 400 /\ Start = 240) => limit = 37

\* adjust_up(0) from the leaf of index 240 (45) of the tree of 400: three moves
\* up, to index 29 (37)
C24_Witness ==
    /\ last.op = "adjust_up" /\ last.streak_counter = 0
    /\ heap.original = 400 /\ Start = 240 /\ StartValue = 45
    /\ heap.current = 29 /\ limit = 37 /\ ~remove_limit

(***************************************************************************)
(* Properties of adjust_limit (SpecTune, Spec)                             *)
(***************************************************************************)
\* the last adjust_limit found the scan's count for its trigger above
\* policy_data.errors
Worsened == Adjusted /\ last.scan_errors > last.before.errors

\* C25: an adjust_limit that found the errors worsened leaves the streak
\* counter at 0 and policy_data.errors at the scan's count; it has applied
\* adjust_down (cursor on the right child, limit its value; nothing from a
\* leaf) iff policy_data.errors was not 0, and on the first tune it leaves the
\* cursor and the limit as set_reqs_sec left them
C25_Worsened ==
    Worsened =>
        /\ tuning_lock.streak = 0
        /\ errors = last.scan_errors
        /\ ~last.removed
        /\ limit = heap.inner[heap.current]
        /\ heap.current = IF last.before.errors # 0 /\ last.before.current < FirstLeaf
                          THEN 2 * last.before.current + 2
                          ELSE last.before.current
        /\ last.before.errors = 0 => limit = last.before.limit

\* errors worsened after two quiet adjustments: the streak is back at 0 and
\* the cursor has moved from index 3 to its right child
C25_Witness ==
    /\ Worsened /\ last.before.errors = MinErrors /\ last.before.streak = 2
    /\ last.before.current = 3 /\ heap.current = 8
    /\ tuning_lock.streak = 0 /\ errors = MinErrors + 1

\* the last adjust_limit found the scan's count for its trigger not above
\* policy_data.errors
NotWorsened == Adjusted /\ ~(last.scan_errors > last.before.errors)

\* C26: an adjust_limit that found the errors not worsened has raised the
\* streak counter by exactly 1, has applied adjust_up with the raised counter
\* and has left policy_data.errors alone; after every adjust_limit the streak
\* counter is the number of adjustments without worsening made in a row since
\* the last worsening one (last.run)
C26_NotWorsened ==
    /\ Adjusted => tuning_lock.streak = last.run
    /\ NotWorsened =>
          /\ tuning_lock.streak = last.before.streak + 1
          /\ errors = last.before.errors
          /\ LET pd == adjust_up([heap |-> move_to(heap, last.before.current),
                                  limit |-> last.before.limit,
                                  remove_limit |-> last.before.remove_limit],
                                 last.before.streak + 1, FALSE)
             IN  /\ heap = pd.heap
                 /\ limit = pd.limit
                 /\ last.removed = pd.remove_limit

\* the third adjustment in a row without worsening: adjust_up(3) took the
\* cursor from index 3 back to the root
C26_Witness ==
    /\ NotWorsened /\ last.before.streak = 2 /\ tuning_lock.streak = 3 /\ last.run = 3
    /\ heap.original = 400 /\ last.before.current = 3 /\ heap.current = 0
    /\ errors = last.before.errors

\* the workers inside adjust_limit whose try_lock found tuning_lock held
LockMissed == {w \in Workers : frame[w].guard = "Err"}

\* C27: a worker whose try_lock fails goes on at once to the rest of
\* adjust_limit and changes neither the streak counter, the tree, the limit nor
\* policy_data.errors, then or later in that call; it never tries the lock
\* again and never returns Err; it still loads remove_limit and then either
\* removes the limiter and clears the flag or installs a bucket for the limit it
\* loaded, and goes on to cool_down
C27_LockMissed ==
    [][\A w \in Workers :
          /\ (pc[w] = "try_lock" /\ tuning_lock.held /\ pc'[w] # pc[w]) =>
                /\ pc'[w] = "after_lock"
                /\ frame'[w].guard = "Err"
                /\ UNCHANGED <<tuning_lock, heap, limit, errors, remove_limit, rate_limiter>>
          /\ (w \in LockMissed /\ pc'[w] # pc[w]) =>
                /\ UNCHANGED <<tuning_lock, heap, limit, errors>>
                /\ pc'[w] \notin {"adjust", "try_lock", "unlock", "return"}
                /\ pc[w] = "after_lock" =>
                      /\ pc'[w] = IF remove_limit THEN "remove" ELSE "bucket"
                      /\ ~remove_limit => frame'[w].new_limit = limit
                /\ pc[w] = "remove" => rate_limiter' = None /\ pc'[w] = "removed"
                /\ pc[w] = "removed" => ~remove_limit' /\ pc'[w] = "cool_down"
                /\ pc[w] = "bucket" =>
                      /\ rate_limiter' # None
                      /\ unwrap(rate_limiter').max = frame[w].new_limit
                      /\ pc'[w] = "cool_down"]_vars

\* a worker that missed the lock has installed the bucket for the limit and is
\* at cool_down, while the worker that held the lock is still in adjust_limit
C27_Witness ==
    \E w \in LockMissed : \E v \in Workers \ {w} :
        /\ pc[w] = "cool_down" /\ pc[v] \in {"unlock", "after_lock", "bucket"}
        /\ frame[v].guard = "Ok"
        /\ rate_limiter # None /\ unwrap(rate_limiter).max = limit

\* C28: after adjust_limit, if remove_limit was set at the end of the locked
\* section the limiter is None and remove_limit is cleared; otherwise, with
\* create_limiter true the installed bucket has max = policy_data.limit, and
\* with create_limiter false the limiter is the one that was there before
C28_AfterLock ==
    last.op = "adjust_limit" =>
        IF last.removed
        THEN rate_limiter = None /\ ~remove_limit
        ELSE /\ ~remove_limit
             /\ IF last.create_limiter
                THEN rate_limiter # None /\ unwrap(rate_limiter).max = limit
                ELSE rate_limiter = last.before.rate_limiter /\ built = last.before.built

\* adjust_limit(trigger, false) moved the limit from 200 down to 100 and left
\* the bucket of max 200 in place
C28_Witness ==
    /\ last.op = "adjust_limit" /\ ~last.create_limiter /\ ~last.removed
    /\ last.before.limit = 200 /\ limit = 100
    /\ rate_limiter # None /\ unwrap(rate_limiter).max = 200
    /\ rate_limiter = last.before.rate_limiter

\* C29: in adjust_limit the scan's error count for the trigger is never
\* smaller than policy_data.errors, so the branch taken when the count has
\* not grown is only ever taken with scan_errors = policy_errors
C29_ErrorsNeverBelowPolicy ==
    Adjusted => last.scan_errors >= last.before.errors

\* worker w takes the tuning lock and compares scan_errors with policy_errors
ComparesUnderLock(w) ==
    pc[w] = "try_lock" /\ ~tuning_lock.held /\ pc'[w] = "unlock"

\* C30: the policy_errors that adjust_limit compares is the value in force
\* while the tuning lock is held: at the comparison it equals
\* policy_data.errors, so no worker adjusts on a superseded value
C30_ComparesCurrentErrors ==
    [][\A w \in Workers : ComparesUnderLock(w) => frame[w].policy_errors = errors]_vars

\* worker w runs set_reqs_sec: the tree is rebuilt and the cursor put on the root
Seeds_tree(w) == pc[w] = "seed" /\ pc'[w] = "seeded"

\* C31: the tree is seeded only on the first tune: once policy_data.errors is
\* non-zero no later or concurrent tune runs set_reqs_sec, so the tree is not
\* rebuilt and the cursor not reset after an adjustment has been recorded
C31_SeededOnce ==
    [][\A w \in Workers : Seeds_tree(w) => errors = 0]_vars

\* what has happened to the url since its request was sent
Log == IF last.op = "request" THEN last.log ELSE <<>>

\* the steps of the log at which the filters decided
Decisions == {i \in DOMAIN Log : Log[i] \in {"filtered", "kept"}}

\* C32: per url, the token is acquired (if limiting) before the HTTP request
\* and the policy is evaluated after it; with recursion enabled TryRecursion
\* and the awaited Sync reply come before the filter decision, also when the
\* filter drops the response; a filtered response is neither extracted nor
\* reported
C32_StepOrder ==
    /\ pc[1] = "http" /\ frame[1].should_limit => frame[1].limited = "Ok"
    /\ last.op = "request" =>
          /\ last.should_limit => last.limited = "Ok"
          /\ Log[1] = "logged_request"
          /\ pc[1] = "policy" => Log = <<"logged_request">>
    /\ \A i \in Decisions :
          /\ IF config.no_recursion
             THEN i = 2
             ELSE i = 5 /\ SubSeq(Log, 2, 4) = <<"TryRecursion", "Sync", "reply">>
          /\ Log[i] = "filtered" => Len(Log) = i
    /\ \A i \in DOMAIN Log :
          Log[i] \in {"extract", "send_report"} =>
              \E j \in 1..(i - 1) : Log[j] = "kept"

\* a limited request with recursion enabled was handed to the scan handler,
\* the Sync was answered, and the filters then dropped the response
C32_Witness ==
    /\ last.op = "request" /\ last.should_limit /\ ~config.no_recursion
    /\ Log = <<"logged_request", "TryRecursion", "Sync", "reply", "filtered">>
    /\ pc[1] = "idle"

\* worker w executes limit(): the limiter is read and unwrapped
Limits(w) == pc[w] = "limit" /\ pc'[w] # "limit"

\* C33: whenever a worker executes limit() a bucket is present: no worker
\* that saw rate_limiter.is_some() unwraps a limiter that another worker's
\* set_rate_limiter(None) has removed
C33_LimitFindsBucket ==
    [][\A w \in Workers : Limits(w) => rate_limiter # None]_vars

\* C34: policy_data.errors never decreases, whatever the sequence and the
\* interleaving of the adjust_limit calls, and once non-zero it does not
\* return to zero
C34_ErrorsMonotonic ==
    [][errors' >= errors /\ (errors # 0 => errors' # 0)]_vars

\* C35: once adjust_limit has removed the limiter, a later tune that finds
\* the scan's errors not increased leaves it absent (in SpecTune the limiter
\* is absent before such a tune only if an earlier adjust_limit removed it)
C35_RemovedStaysAbsent ==
    NotWorsened /\ last.before.rate_limiter = None => rate_limiter = None

\* C36: for one scan the skipped requests are taken off the total at most
\* once, however many workers call bail: SubtractFromUsizeField is sent to
\* the stats aggregator no more than one time
C36_CorrectionOnce ==
    handles.stats.SubtractFromUsizeField <= 1

C38_RefillWithinLimit ==
    last.op = "build_a_bucket" =>
        LET bucket == unwrap(rate_limiter)
        IN  /\ bucket.max = last.limit
            /\ bucket.refill_amount * (1000 \div bucket.refill_interval) <= last.limit

====
